---- MODULE Spec2Model ----
(***************************************************************************)
(* Model of the scec broker (src/scec/broker.py) and of the exchange base   *)
(* class (src/scec/exchanges/base.py) with its two adapters.                *)
(*                                                                         *)
(* Prices, quantities and order sizes are exact rationals: prices and      *)
(* quantities are integers (ticks and lots), an estimate is a reduced      *)
(* fraction [num, den].  The rounding of Python floats is not modelled.    *)
(*                                                                         *)
(* The program runs on one thread: an asyncio event loop with a FIFO ready *)
(* queue.  The coroutines of broker.py contain no suspension point other   *)
(* than the `await asyncio.gather(...)`, and the HTTP calls and the retry  *)
(* sleep they make are blocking, so one frame owns the thread at a time.   *)
(*                                                                         *)
(* Spec follows a broker over built exchanges, SpecExchange one exchange   *)
(* object from its construction through the calls made on it directly,     *)
(* SpecLookup the pair lookup over arbitrary directories.                  *)
(***************************************************************************)
EXTENDS Integers, Sequences, FiniteSets, TLC

\* ------------------------------------------------------------------ bounds
MaxBookLen == 2
MaxAmount == 3
MaxPairs == 2
MaxFills == 2

\* ------------------------------------------------------- program constants
StopAfterAttempt == 5
CodesOk == 200

\* ------------------------------------------------------------ the universe
Instances == {"binance", "binance2", "kraken"}

Name(e) == IF e = "kraken" THEN "Kraken Futures" ELSE "Binance"

Pair(b, q, s) == [base |-> b, quote |-> q, symbol |-> s]

BinancePairs ==
    << Pair("BTC", "USDT", "BTCUSDT"),
       Pair("BTC", "USD", "BTCUSDT"),
       Pair("ADA", "EUR", "ADAEUR") >>

KrakenPairs ==
    << Pair("XBT", "USD", "PF_XBTUSD"),
       Pair("BTC", "USD", "PF_XBTUSD"),
       Pair("ADA", "EUR", "PF_ADAEUR") >>

LoadedPairs(e) == IF e = "kraken" THEN KrakenPairs ELSE BinancePairs

\* identifiers a caller may ask for
Symbols == {"BTCUSDT", "BTCUSD", "PF_XBTUSD"}

Amounts == 0..MaxAmount

OrderBookOrder(p, q) == [price |-> p, quantity |-> q]

\* prices in ticks and quantities in lots of the levels a venue may quote
Prices == {1, 2}

Quantities == {1, 2}

Levels == {OrderBookOrder(p, q) : p \in Prices, q \in Quantities}

SeqsUpTo(S, n) == UNION {[1..k -> S] : k \in 0..n}

AskLists == SeqsUpTo(Levels, MaxBookLen)

BidLists == {<<>>, <<OrderBookOrder(1, 1)>>}

OrderBook(b, a) == [bids |-> b, asks |-> a]

NoBook == OrderBook(<<>>, <<>>)

\* -------------------------------------------------------------- rationals
RECURSIVE GCD(_, _)
GCD(a, b) == IF b = 0 THEN a ELSE GCD(b, a % b)

Frac(n, d) == LET g == GCD(n, d) IN [num |-> n \div g, den |-> d \div g]

FracLess(a, b) == a.num * b.den < b.num * a.den

NoPrice == [num |-> 0, den |-> 1]

\* ---------------------------------------------------- results and errors
\* The body of an order acknowledgement: Binance's side, origQty, executedQty,
\* status and fills; Kraken's sendStatus with its status and orderEvents
OrderBody(side, orig, executed, status, events) ==
    [side |-> side, origQty |-> orig, executedQty |-> executed, status |-> status,
     events |-> events]

NoOrderBody == OrderBody("", 0, 0, "", <<>>)

\* An HTTP response: status code, raw body text, whether the body parses as a
\* JSON object, the keys of that object and the values the code reads from it.
\* listing and order are what the body of a pair listing or of an order
\* acknowledgement holds; they are empty in the other bodies.
Response(st, raw, js, ks, m, er, b, a) ==
    [status |-> st, raw |-> raw, json |-> js, keys |-> ks, msg |-> m,
     error |-> er, bids |-> b, asks |-> a, listing |-> <<>>, order |-> NoOrderBody]

WithListing(resp, l) == [resp EXCEPT !.listing = l]

WithOrderBody(resp, body) == [resp EXCEPT !.order = body]

NoResponse == Response(0, "", FALSE, {}, "", "", <<>>, <<>>)

NoPair == Pair("", "", "")

Ok(p) == [kind |-> "ok", price |-> p, exc |-> "", msg |-> "",
          last_attempt |-> 0, response |-> NoResponse]

Err(e, m) == [kind |-> "err", price |-> NoPrice, exc |-> e, msg |-> m,
              last_attempt |-> 0, response |-> NoResponse]

NoResult == [kind |-> "none", price |-> NoPrice, exc |-> "", msg |-> "",
             last_attempt |-> 0, response |-> NoResponse]

WithResponse(r, resp) == [r EXCEPT !.response = resp]

WithLastAttempt(r, n) == [r EXCEPT !.last_attempt = n]

\* ------------------------------------------------------- pair directory
\* mutant: a lookup that knows the native symbol only
MatchesSymbolOnly(pair, symbol) == pair.symbol = symbol

Matches(pair, symbol) ==
    pair.symbol = symbol \/ pair.base \o pair.quote = symbol

RECURSIVE get_pair_scan(_, _)
get_pair_scan(ps, symbol) ==
    IF ps = <<>> THEN [found |-> FALSE, pair |-> NoPair]
    ELSE IF Matches(Head(ps), symbol) THEN [found |-> TRUE, pair |-> Head(ps)]
    ELSE get_pair_scan(Tail(ps), symbol)

\* CryptocurrencyExchange.get_pair: the pair, or the error it raises
get_pair(ps, symbol, name) ==
    LET r == get_pair_scan(ps, symbol) IN
    [found |-> r.found, pair |-> r.pair,
     error |-> IF r.found THEN NoResult
               ELSE Err("ExchangePairDoesNotExistError",
                        "Trading pair '" \o symbol \o "' not found on '" \o name \o "'")]

\* ------------------------------------------------------ order book walk
Fill(p, a) == [price |-> p, amount |-> a]

\* mutant: the level that completes the order is taken whole
RECURSIVE WalkLoopWholeLevel(_, _, _)
WalkLoopWholeLevel(asks, order_size, fills) ==
    IF order_size > 0 /\ asks # <<>> THEN
        LET ask == Head(asks)
            rest == Tail(asks)
        IN IF ask.quantity >= order_size
           THEN WalkLoopWholeLevel(rest, 0, Append(fills, Fill(ask.price, ask.quantity)))
           ELSE WalkLoopWholeLevel(rest, order_size - ask.quantity,
                                   Append(fills, Fill(ask.price, ask.quantity)))
    ELSE [asks |-> asks, order_size |-> order_size, fills |-> fills]

\* mutant: the levels are popped from the back of the list
RECURSIVE WalkLoopFromBack(_, _, _)
WalkLoopFromBack(asks, order_size, fills) ==
    IF order_size > 0 /\ asks # <<>> THEN
        LET ask == asks[Len(asks)]
            rest == SubSeq(asks, 1, Len(asks) - 1)
        IN IF ask.quantity >= order_size
           THEN WalkLoopFromBack(rest, 0, Append(fills, Fill(ask.price, order_size)))
           ELSE WalkLoopFromBack(rest, order_size - ask.quantity,
                                 Append(fills, Fill(ask.price, ask.quantity)))
    ELSE [asks |-> asks, order_size |-> order_size, fills |-> fills]

\* the while loop of get_estimated_market_buy_price; asks is the list object
\* of the order book, popped from the front
RECURSIVE WalkLoop(_, _, _)
WalkLoop(asks, order_size, fills) ==
    IF order_size > 0 /\ asks # <<>> THEN
        LET ask == Head(asks)
            rest == Tail(asks)
        IN IF ask.quantity >= order_size
           THEN WalkLoop(rest, 0, Append(fills, Fill(ask.price, order_size)))
           ELSE WalkLoop(rest, order_size - ask.quantity,
                         Append(fills, Fill(ask.price, ask.quantity)))
    ELSE [asks |-> asks, order_size |-> order_size, fills |-> fills]

RECURSIVE SumPriceAmount(_)
SumPriceAmount(fills) ==
    IF fills = <<>> THEN 0
    ELSE Head(fills).price * Head(fills).amount + SumPriceAmount(Tail(fills))

RECURSIVE SumAmount(_)
SumAmount(fills) ==
    IF fills = <<>> THEN 0 ELSE Head(fills).amount + SumAmount(Tail(fills))

\* mutant: the price of a partial fill is returned when the asks run out
MarketPricePartial(w) ==
    IF SumAmount(w.fills) = 0
    THEN Err("ZeroDivisionError", "division by zero")
    ELSE Ok(Frac(SumPriceAmount(w.fills), SumAmount(w.fills)))

\* what the walk returns or raises, given the state the loop ended in
MarketPrice(w) ==
    IF w.order_size > 0
    THEN Err("ExchangeLiquidityError", "Insufficient liquidity in orderbook to fill order")
    ELSE IF SumAmount(w.fills) = 0
    THEN Err("ZeroDivisionError", "division by zero")
    ELSE Ok(Frac(SumPriceAmount(w.fills), SumAmount(w.fills)))

\* ------------------------------------------------------------- heapq
\* A heap item is the tuple (price, exchange).  Python compares tuples item
\* by item: equal prices send the comparison on to the exchange objects,
\* which define no ordering, and `<` raises TypeError.
Item(p, e) == [price |-> p, exchange |-> e]

TupleLT(a, b) ==
    IF a.price # b.price
    THEN (IF FracLess(a.price, b.price) THEN "true" ELSE "false")
    ELSE IF a.exchange = b.exchange THEN "false"
    ELSE "TypeError"

HeapOk(h) == [err |-> FALSE, heap |-> h]

HeapErr(h) == [err |-> TRUE, heap |-> h]

\* heapq._siftdown, positions counted from 0 as in Python
RECURSIVE Siftdown(_, _, _, _)
Siftdown(heap, startpos, pos, newitem) ==
    IF pos > startpos THEN
        LET parentpos == (pos - 1) \div 2
            parent == heap[parentpos + 1]
            c == TupleLT(newitem, parent)
        IN IF c = "TypeError" THEN HeapErr(heap)
           ELSE IF c = "true"
           THEN Siftdown([heap EXCEPT ![pos + 1] = parent], startpos, parentpos, newitem)
           ELSE HeapOk([heap EXCEPT ![pos + 1] = newitem])
    ELSE HeapOk([heap EXCEPT ![pos + 1] = newitem])

\* heapq._siftup
RECURSIVE Siftup(_, _, _, _)
Siftup(heap, startpos, pos, newitem) ==
    LET endpos == Len(heap)
        childpos == 2 * pos + 1
        rightpos == childpos + 1
    IN IF childpos < endpos THEN
           LET c == IF rightpos < endpos
                    THEN TupleLT(heap[childpos + 1], heap[rightpos + 1])
                    ELSE "true"
               smaller == IF c = "false" THEN rightpos ELSE childpos
           IN IF c = "TypeError" THEN HeapErr(heap)
              ELSE Siftup([heap EXCEPT ![pos + 1] = heap[smaller + 1]],
                          startpos, smaller, newitem)
       ELSE Siftdown([heap EXCEPT ![pos + 1] = newitem], startpos, pos, newitem)

heappush(heap, item) ==
    Siftdown(Append(heap, item), 0, Len(heap), item)

\* heapq.heappop of a non-empty heap: the item returned, or the TypeError
heappop(heap) ==
    LET lastelt == heap[Len(heap)]
        rest == SubSeq(heap, 1, Len(heap) - 1)
    IN IF rest # <<>>
       THEN LET s == Siftup([rest EXCEPT ![1] = lastelt], 0, 0, lastelt)
            IN [err |-> s.err, item |-> rest[1], heap |-> s.heap]
       ELSE [err |-> FALSE, item |-> lastelt, heap |-> rest]

\* the for loop of get_lowest_market_buy_price over zip(prices, exchanges)
RECURSIVE PushAll(_, _, _)
PushAll(heap, prices, exs) ==
    IF prices = <<>> \/ exs = <<>> THEN HeapOk(heap)
    ELSE LET r == heappush(heap, Item(Head(prices), Head(exs)))
         IN IF r.err THEN r ELSE PushAll(r.heap, Tail(prices), Tail(exs))

TypeError == Err("TypeError", "'<' not supported between instances")

NoExchanges == Err("RuntimeError", "No exchanges available to get lowest market price")

\* lines 87-94 of get_lowest_market_buy_price: what it returns or raises once
\* gather has delivered the prices; exs is the exchange set in iteration order
Selected(p, e) == [result |-> Ok(p), exchange |-> e]

Failed(err) == [result |-> err, exchange |-> ""]

\* mutant: an empty heap yields an empty result instead of the error
SelectOrNothing(prices, exs) ==
    LET pushed == PushAll(<<>>, prices, exs) IN
    IF pushed.err THEN Failed(TypeError)
    ELSE IF pushed.heap # <<>>
    THEN LET popped == heappop(pushed.heap)
         IN IF popped.err THEN Failed(TypeError)
            ELSE Selected(popped.item.price, popped.item.exchange)
    ELSE Selected(NoPrice, "")

Select(prices, exs) ==
    LET pushed == PushAll(<<>>, prices, exs) IN
    IF pushed.err THEN Failed(TypeError)
    ELSE IF pushed.heap # <<>>
    THEN LET popped == heappop(pushed.heap)
         IN IF popped.err THEN Failed(TypeError)
            ELSE Selected(popped.item.price, popped.item.exchange)
    ELSE Failed(NoExchanges)

\* ------------------------------------------------------ request dispatch
\* A request as the adapters build it: the names of its query parameters and
\* of its headers.  kind is the endpoint: "pairs" (exchangeInfo / tickers),
\* "depth" (depth / orderbook) or "order" (order / sendorder).
RequestParams(e, kind) ==
    IF kind = "pairs" THEN {}
    ELSE IF kind = "depth"
    THEN (IF e = "kraken" THEN {"symbol"} ELSE {"symbol", "limit"})
    ELSE IF e = "kraken" THEN {"symbol", "side", "orderType", "size", "leverage"}
    ELSE {"symbol", "side", "type", "quantity"}

Request(kind) == [kind |-> kind, headers |-> {}]

\* mutant: the signature material is added whatever the flag says
make_request_signing(e, request, authenticated) ==
    IF e = "kraken"
    THEN [params |-> RequestParams(e, request.kind),
          headers |-> request.headers \cup {"APIKey", "Authent", "Nonce"}]
    ELSE [params |-> RequestParams(e, request.kind) \cup {"timestamp", "signature"},
          headers |-> request.headers \cup {"X-MBX-APIKEY"}]

\* Binance.make_request / KrakenFutures.make_request up to the send: the
\* parameters and headers of the prepared request
make_request(e, request, authenticated) ==
    IF e = "kraken"
    THEN [params |-> RequestParams(e, request.kind),
          headers |-> request.headers \cup
                      (IF authenticated THEN {"APIKey", "Authent", "Nonce"} ELSE {})]
    ELSE [params |-> RequestParams(e, request.kind) \cup
                     (IF authenticated THEN {"timestamp", "signature"} ELSE {}),
          headers |-> request.headers \cup {"X-MBX-APIKEY"}]

\* mutant: the ceiling is checked one attempt late
stop_after_attempt_late(attempt_number) == attempt_number > StopAfterAttempt

\* tenacity.stop_after_attempt(5): no further attempt once this one was the 5th
stop_after_attempt(attempt_number) == attempt_number >= StopAfterAttempt

\* tenacity raises RetryError(last_attempt) when it stops (reraise is off);
\* a connection error is identified by the number of the send that raised it
RetryError(last) == WithLastAttempt(Err("RetryError", "RetryError"), last)

\* mutant: the message is the raw body whatever the body is
ErrorMessageRaw(resp) == resp.raw

\* the error message send_request builds for a response that is not 200
ErrorMessage(resp) ==
    IF ~resp.json THEN resp.raw
    ELSE IF "msg" \in resp.keys THEN resp.msg
    ELSE "Unknown error occurred."

BadStatus(resp) ==
    WithResponse(
        Err("ExchangeBadResponseError",
            "Request failed with status code " \o ToString(resp.status)
                \o ", error message: " \o ErrorMessage(resp)),
        resp)

\* KrakenFutures.error_mapping
ErrorMapping ==
    ("apiLimitExceeded" :> "ExchangeRateLimitExceededError")
    @@ ("requiredArgumentMissing" :> "ExchangeBadResponseError")
    @@ ("unavailable" :> "ExchangeBadResponseError")
    @@ ("authenticationError" :> "ExchangeAuthenticationError")
    @@ ("insufficientFunds" :> "ExchangeInsufficientFundsError")
    @@ ("Bad Request" :> "ExchangeBadResponseError")
    @@ ("Json Parse Error" :> "ExchangeBadResponseError")
    @@ ("nonceBelowThreshold" :> "ExchangeAuthenticationError")
    @@ ("Server Error" :> "ExchangeBadResponseError")
    @@ ("unknownError" :> "ExchangeBadResponseError")

\* KrakenFutures.handle_response: the error it raises, or NoResult
handle_response(resp) ==
    IF ~resp.json THEN Err("JSONDecodeError", resp.raw)
    ELSE IF "result" \notin resp.keys
    THEN Err("ExchangeBadResponseError", "Kraken Futures API error: " \o resp.raw)
    ELSE IF "error" \in resp.keys /\ resp.error \in DOMAIN ErrorMapping
    THEN Err(ErrorMapping[resp.error], resp.error)
    ELSE NoResult

\* send_request after _send returned: the error raised, or NoResult when the
\* JSON body is handed back to the caller
AfterSend(e, resp) ==
    IF resp.status # CodesOk THEN BadStatus(resp)
    ELSE IF e = "kraken" THEN handle_response(resp)
    ELSE IF ~resp.json THEN Err("JSONDecodeError", resp.raw)
    ELSE NoResult

\* get_order_book on the JSON body: the keys it subscripts
BookKeys(e) == IF e = "kraken" THEN {"orderBook"} ELSE {"bids", "asks"}

ParseOrderBook(e, resp) ==
    IF BookKeys(e) \subseteq resp.keys
    THEN [error |-> NoResult, book |-> OrderBook(resp.bids, resp.asks)]
    ELSE [error |-> Err("KeyError", "KeyError"), book |-> NoBook]

ServerError == Response(500, "Internal Server Error", FALSE, {}, "", "", <<>>, <<>>)

\* a 4xx answer whose body is a JSON object with a msg, and one without
InvalidSymbol ==
    Response(400, "{code: -1121, msg: Invalid symbol.}", TRUE, {"code", "msg"},
             "Invalid symbol.", "", <<>>, <<>>)

TooManyRequests == Response(429, "{code: -1003}", TRUE, {"code"}, "", "", <<>>, <<>>)

ErrorResponses == {ServerError, InvalidSymbol, TooManyRequests}

\* the same body under another success status
Created(resp) == [resp EXCEPT !.status = 201]

\* Kraken bodies that report a venue error under status 200: one without the
\* `result` key, some whose error is in error_mapping and one whose is not
KrakenError(ks, er) ==
    Response(CodesOk, "{error: " \o er \o "}", TRUE, ks, "", er, <<>>, <<>>)

KrakenErrorPayloads ==
    {Response(CodesOk, "{serverTime: 2024-04-09}", TRUE, {"serverTime"}, "", "", <<>>, <<>>)}
    \cup {KrakenError({"result", "error", "serverTime"}, er) :
              er \in {"apiLimitExceeded", "authenticationError", "insufficientFunds",
                      "unknownError", "marketSuspended"}}

\* what the venue may answer to an order book request
BookResponse(e, b, a) ==
    IF e = "kraken"
    THEN Response(CodesOk, "book", TRUE, {"result", "serverTime", "orderBook"}, "", "", b, a)
    ELSE Response(CodesOk, "book", TRUE, {"lastUpdateId", "bids", "asks"}, "", "", b, a)

\* during a fan-out the venues answer with a book that has one bid, or with
\* a 500
DepthResponses(e) ==
    {BookResponse(e, <<OrderBookOrder(1, 1)>>, a) : a \in AskLists} \cup {ServerError}

\* every answer a direct get_order_book call may see
BookAnswers(e) ==
    {BookResponse(e, b, a) : b \in BidLists, a \in AskLists}
    \cup ErrorResponses
    \cup {Created(BookResponse(e, <<>>, <<OrderBookOrder(1, 1)>>))}
    \cup (IF e = "kraken" THEN KrakenErrorPayloads ELSE {})

\* ------------------------------------------------------------ pair listing
\* An entry of exchangeInfo's symbols (baseAsset, quoteAsset, symbol) or of
\* Kraken's tickers (tag, symbol, pair "base:quote", here already split).
Ticker(tag, symbol, base, quote) ==
    [tag |-> tag, symbol |-> symbol, base |-> base, quote |-> quote]

Tickers(e) ==
    IF e = "kraken"
    THEN {Ticker("perpetual", "PF_XBTUSD", "XBT", "USD"),
          Ticker("perpetual", "PI_XBTUSD", "XBT", "USD"),
          Ticker("month", "PF_ADAEUR", "ADA", "EUR")}
    ELSE {Ticker("", "BTCUSDT", "BTC", "USDT"),
          Ticker("", "BTCUSD", "BTC", "USD"),
          Ticker("", "ADAEUR", "ADA", "EUR")}

\* symbol.startswith("PF_") on the symbols of Tickers
StartsWithPF(symbol) == symbol \in {"PF_XBTUSD", "PF_ADAEUR"}

\* the usd_stablecoin each instance is constructed with
UsdStablecoin(e) == IF e = "binance" THEN "USDT" ELSE "USD"

\* mutant: the alias is added for the configured quote asset even when it is
\* "USD" itself
RECURSIVE LoadPairsAnyQuote(_, _)
LoadPairsAnyQuote(e, listing) ==
    IF listing = <<>> THEN <<>>
    ELSE LET t == Head(listing)
             rest == LoadPairsAnyQuote(e, Tail(listing))
         IN IF e = "kraken"
            THEN (IF ~(t.tag = "perpetual" /\ StartsWithPF(t.symbol)) THEN rest
                  ELSE IF t.base = "XBT"
                  THEN <<Pair(t.base, t.quote, t.symbol), Pair("BTC", t.quote, t.symbol)>>
                       \o rest
                  ELSE <<Pair(t.base, t.quote, t.symbol)>> \o rest)
            ELSE (IF t.quote = UsdStablecoin(e)
                  THEN <<Pair(t.base, t.quote, t.symbol), Pair(t.base, "USD", t.symbol)>>
                       \o rest
                  ELSE <<Pair(t.base, t.quote, t.symbol)>> \o rest)

\* the for loops of load_exchange_pairs
RECURSIVE LoadPairs(_, _)
LoadPairs(e, listing) ==
    IF listing = <<>> THEN <<>>
    ELSE LET t == Head(listing)
             rest == LoadPairs(e, Tail(listing))
         IN IF e = "kraken"
            THEN (IF ~(t.tag = "perpetual" /\ StartsWithPF(t.symbol)) THEN rest
                  ELSE IF t.base = "XBT"
                  THEN <<Pair(t.base, t.quote, t.symbol), Pair("BTC", t.quote, t.symbol)>>
                       \o rest
                  ELSE <<Pair(t.base, t.quote, t.symbol)>> \o rest)
            ELSE (IF t.quote = UsdStablecoin(e) /\ t.quote # "USD"
                  THEN <<Pair(t.base, t.quote, t.symbol), Pair(t.base, "USD", t.symbol)>>
                       \o rest
                  ELSE <<Pair(t.base, t.quote, t.symbol)>> \o rest)

ListingKey(e) == IF e = "kraken" THEN "tickers" ELSE "symbols"

\* load_exchange_pairs on the JSON body
ParsePairs(e, resp) ==
    IF ListingKey(e) \in resp.keys
    THEN [error |-> NoResult, pairs |-> LoadPairs(e, resp.listing)]
    ELSE [error |-> Err("KeyError", ListingKey(e)), pairs |-> <<>>]

ListingResponse(e, listing) ==
    WithListing(
        IF e = "kraken"
        THEN Response(CodesOk, "tickers", TRUE, {"result", "tickers", "serverTime"},
                      "", "", <<>>, <<>>)
        ELSE Response(CodesOk, "exchangeInfo", TRUE, {"timezone", "symbols"},
                      "", "", <<>>, <<>>),
        listing)

\* what the venue may answer to the pair listing request
ListingAnswers(e) ==
    {ListingResponse(e, l) : l \in SeqsUpTo(Tickers(e), MaxPairs)}
    \cup ErrorResponses
    \cup (IF e = "kraken" THEN KrakenErrorPayloads ELSE {})

\* ----------------------------------------------------------- market orders
MarketOrder(id, pair, action, fs, quantity, filled, status, e) ==
    [id |-> id, pair |-> pair, action |-> action, fills |-> fs, quantity |-> quantity,
     filled |-> filled, status |-> status, exchange |-> e]

NoOrder == MarketOrder("", "", "", <<>>, 0, 0, "", "")

\* the fills or order events an acknowledgement may list
Event(t, p, a) == [type |-> t, price |-> p, amount |-> a]

Events(e) ==
    IF e = "kraken"
    THEN {Event(t, p, 1) : t \in {"EXECUTION", "REJECT"}, p \in Prices}
    ELSE {Event("", p, a) : p \in Prices, a \in Quantities}

EventLists(e) == SeqsUpTo(Events(e), MaxFills)

RECURSIVE SumEvents(_)
SumEvents(events) ==
    IF events = <<>> THEN 0 ELSE Head(events).amount + SumEvents(Tail(events))

\* the (price, quantity) tuples built from the fills or the order events
FillTuples(events) == [i \in 1..Len(events) |-> <<events[i].price, events[i].amount>>]

BinanceOrderKeys == {"orderId", "side", "fills", "origQty", "executedQty", "status"}

\* what the venue may answer to the submission of order
OrderAcks(e, order) ==
    {WithOrderBody(
        IF e = "kraken"
        THEN Response(CodesOk, "ack", TRUE, {"result", "sendStatus", "serverTime"},
                      "", "", <<>>, <<>>)
        ELSE Response(CodesOk, "ack", TRUE, BinanceOrderKeys \cup {"symbol"},
                      "", "", <<>>, <<>>),
        OrderBody(order.action, order.order_size, SumEvents(events),
                  IF e = "kraken" THEN "placed"
                  ELSE IF SumEvents(events) = order.order_size THEN "FILLED" ELSE "EXPIRED",
                  events)) : events \in EventLists(e)}

OrderResponses(e, order) ==
    OrderAcks(e, order) \cup ErrorResponses
    \cup {Created(ack) : ack \in {a \in OrderAcks(e, order) : Len(a.order.events) = 1}}
    \cup (IF e = "kraken" THEN KrakenErrorPayloads ELSE {})

\* execute_market_order once make_request has returned the JSON body: the
\* MarketOrder built from it, or the error raised on the way
ExecuteResult(e, resp, order) ==
    LET events == resp.order.events IN
    IF e = "kraken" THEN
        IF "sendStatus" \notin resp.keys
        THEN [error |-> Err("KeyError", "sendStatus"), order |-> NoOrder]
        ELSE IF events = <<>>
        THEN [error |-> Err("IndexError", "list index out of range"), order |-> NoOrder]
        ELSE IF events[Len(events)].type # "EXECUTION"
        THEN [error |-> Err("ExchangeBadResponseError",
                            "Failed to fully execute market order for " \o order.symbol),
              order |-> NoOrder]
        ELSE [error |-> NoResult,
              order |-> MarketOrder("order_id", order.symbol, order.action,
                                    FillTuples(events), order.order_size,
                                    SumEvents(events), resp.order.status, e)]
    ELSE
        IF ~(BinanceOrderKeys \subseteq resp.keys)
        THEN [error |-> Err("KeyError", "KeyError"), order |-> NoOrder]
        ELSE [error |-> NoResult,
              order |-> MarketOrder("orderId", order.symbol,
                                    IF resp.order.side = "BUY" THEN "BUY" ELSE "SELL",
                                    FillTuples(events), resp.order.origQty,
                                    resp.order.executedQty, resp.order.status, e)]

RECURSIVE TotalQuantity(_)
TotalQuantity(fs) == IF fs = <<>> THEN 0 ELSE Head(fs)[2] + TotalQuantity(Tail(fs))

RECURSIVE WeightedSum(_)
WeightedSum(fs) ==
    IF fs = <<>> THEN 0 ELSE Head(fs)[1] * Head(fs)[2] + WeightedSum(Tail(fs))

\* MarketOrder.average_fill_price: the value, or the error the division raises
AverageFillPrice(order) ==
    IF TotalQuantity(order.fills) = 0
    THEN Err("ZeroDivisionError", "division by zero")
    ELSE Ok(Frac(WeightedSum(order.fills), TotalQuantity(order.fills)))

\* ------------------------------------------------------------------ state
VARIABLES
    exchanges,    \* Broker.exchanges, a set of exchange instances
    added,        \* the instances add_exchange has been called with so far
    pairs,        \* pairs[e]: the pair directory of instance e
    loaded,       \* loaded[e]: how far the construction of e is, and the number
                  \* of load_exchange_pairs calls made for it
    credentials,  \* credentials[e]: api_key and api_secret of instance e
    callerPc,     \* where the calling coroutine stands
    call,         \* the call in progress, on the broker or on an exchange:
                  \* [op, symbol, amount]
    iterOrder,    \* the order in which the exchange set iterates during the call
    ready,        \* the event loop's FIFO queue of handles
    taskState,    \* taskState[e]: the estimation task gather made for e
    taskResult,   \* taskResult[e]: what that task returned or raised
    outer,        \* the future gather returned: [done, nfinished, exc]
    thread,       \* the frame that owns the thread: [who, pc]
    req,          \* the send_request call in progress or just ended
    order_book,   \* the OrderBook object held by the running estimation
    fetched,      \* that object's content when get_order_book returned it
    fills,        \* the fills list of the running estimation
    lastPair,     \* the last get_pair call and its outcome
    lowest,       \* what get_lowest_market_buy_price returned or raised
    executed,     \* what the method the caller called on an exchange returned
                  \* or raised
    orders,       \* the market orders dispatched, in order
    market_order, \* the MarketOrder the last execute_market_order returned
    average_fill_price  \* what reading its average_fill_price gave

vars == <<exchanges, added, pairs, loaded, credentials, callerPc, call, iterOrder, ready, taskState,
          taskResult, outer, thread, req, order_book, fetched, fills, lastPair, lowest,
          executed, orders, market_order, average_fill_price>>

Handle(k, w) == [kind |-> k, who |-> w]

NoCall == [op |-> "", symbol |-> "", amount |-> 0]

NoOuter == [done |-> FALSE, nfinished |-> 0, exc |-> NoResult]

Idle == [who |-> "none", pc |-> "idle"]

NoReq == [state |-> "none", owner |-> "", kind |-> "", authenticated |-> FALSE,
          params |-> {}, headers |-> {}, sends |-> 0, fails |-> 0,
          response |-> NoResponse, error |-> NoResult]

\* the api_key and api_secret an instance is constructed with
Credentials(e) == [api_key |-> "key of " \o e, api_secret |-> "secret of " \o e]

NoCredentials == [api_key |-> "", api_secret |-> ""]

\* an instance whose constructor has returned: one load_exchange_pairs call
Built == [state |-> "built", calls |-> 1]

NoLookup == [exchange |-> "", symbol |-> "", found |-> FALSE, pair |-> NoPair,
             error |-> NoResult]

NoSelection == Failed(NoResult)

\* the sequences that enumerate the set S once each
Orderings(S) ==
    {f \in [1..Cardinality(S) -> S] : \A i, j \in 1..Cardinality(S) : f[i] = f[j] => i = j}

Init ==
    /\ exchanges = {}
    /\ added = {}
    /\ pairs = [e \in Instances |-> LoadedPairs(e)]
    /\ loaded = [e \in Instances |-> Built]
    /\ credentials = [e \in Instances |-> Credentials(e)]
    /\ callerPc = "idle"
    /\ call = NoCall
    /\ iterOrder = <<>>
    /\ ready = <<>>
    /\ taskState = [e \in Instances |-> "none"]
    /\ taskResult = [e \in Instances |-> NoResult]
    /\ outer = NoOuter
    /\ thread = Idle
    /\ req = NoReq
    /\ order_book = NoBook
    /\ fetched = NoBook
    /\ fills = <<>>
    /\ lastPair = NoLookup
    /\ lowest = NoSelection
    /\ executed = NoResult
    /\ orders = <<>>
    /\ market_order = NoOrder
    /\ average_fill_price = NoResult

\* ---------------------------------------------------------------- broker
\* mutant: an instance of a venue that already has a member is not inserted
add_by_name(set, e) ==
    IF \E x \in set : Name(x) = Name(e) THEN set ELSE set \cup {e}

\* set.add: exchange classes define neither __eq__ nor __hash__, so members
\* are told apart by object identity
add(set, e) == set \cup {e}

\* Broker.add_exchange
AddExchange(e) ==
    /\ callerPc = "idle"
    /\ loaded[e].state = "built"
    /\ exchanges' = add(exchanges, e)
    /\ added' = added \cup {e}
    /\ UNCHANGED <<pairs, loaded, credentials, callerPc, call, iterOrder, ready, taskState,
                   taskResult, outer, thread, req, order_book, fetched, fills,
                   lastPair, lowest, executed, orders, market_order,
                   average_fill_price>>

\* mutant: the caller goes on without waiting for the future gather returned
CallWithoutJoin(op, symbol, amount) ==
    /\ callerPc = "idle"
    /\ call' = [op |-> op, symbol |-> symbol, amount |-> amount]
    /\ \E ord \in Orderings(exchanges) :
        /\ iterOrder' = ord
        /\ ready' = [i \in 1..Len(ord) |-> Handle("task", ord[i])]
    /\ taskState' = [e \in Instances |-> IF e \in exchanges THEN "pending" ELSE "none"]
    /\ outer' = [NoOuter EXCEPT !.done = (exchanges = {})]
    /\ callerPc' = "resumed"
    /\ UNCHANGED <<exchanges, added, pairs, loaded, credentials, taskResult, thread, req,
                   order_book, fetched, fills, lastPair, lowest, executed, orders,
                   market_order, average_fill_price>>

\* get_lowest_market_buy_price up to the await (lines 81-86), entered directly
\* (op "lowest") or from execute_market_buy_for_lowest_price (op "execute"):
\* one coroutine per exchange, each wrapped in a task by gather and scheduled.
\* gather of no coroutine returns a future that is already done.
Call(op, symbol, amount) ==
    /\ callerPc = "idle"
    /\ call' = [op |-> op, symbol |-> symbol, amount |-> amount]
    /\ \E ord \in Orderings(exchanges) :
        /\ iterOrder' = ord
        /\ ready' = [i \in 1..Len(ord) |-> Handle("task", ord[i])]
    /\ taskState' = [e \in Instances |-> IF e \in exchanges THEN "pending" ELSE "none"]
    /\ outer' = [NoOuter EXCEPT !.done = (exchanges = {})]
    /\ callerPc' = IF exchanges = {} THEN "resumed" ELSE "awaiting"
    /\ UNCHANGED <<exchanges, added, pairs, loaded, credentials, taskResult, thread, req,
                   order_book, fetched, fills, lastPair, lowest, executed, orders,
                   market_order, average_fill_price>>

\* ------------------------------------------------------------ event loop
\* The loop runs the next handle when no frame owns the thread, which is
\* when the calling coroutine is suspended in its await.
LoopRuns(h) ==
    /\ callerPc = "awaiting"
    /\ thread = Idle
    /\ ready # <<>>
    /\ Head(ready) = h

\* mutant: the tasks share one result slot
FinishShared(e, res, queue) ==
    /\ taskState' = [taskState EXCEPT ![e] = "finished"]
    /\ taskResult' = [o \in Instances |-> IF o \in exchanges THEN res ELSE taskResult[o]]
    /\ ready' = Append(queue, Handle("cb", e))
    /\ thread' = Idle

\* a task ends: its result is set and its done callback is scheduled
Finish(e, res, queue) ==
    /\ taskState' = [taskState EXCEPT ![e] = "finished"]
    /\ taskResult' = [taskResult EXCEPT ![e] = res]
    /\ ready' = Append(queue, Handle("cb", e))
    /\ thread' = Idle

NewRequest(e, kind, auth) ==
    LET prepared == make_request(e, Request(kind), auth) IN
    [state |-> "active", owner |-> e, kind |-> kind, authenticated |-> auth,
     params |-> prepared.params, headers |-> prepared.headers,
     sends |-> 0, fails |-> 0, response |-> NoResponse, error |-> NoResult]

\* First step of the task of exchange e: get_estimated_market_buy_price calls
\* exchange.get_order_book(symbol), which resolves the pair and, when there is
\* one, makes the unauthenticated order book request.
TaskStart(e) ==
    /\ LoopRuns(Handle("task", e))
    /\ LET gp == get_pair(pairs[e], call.symbol, Name(e)) IN
        /\ lastPair' = [exchange |-> e, symbol |-> call.symbol, found |-> gp.found,
                        pair |-> gp.pair, error |-> gp.error]
        /\ IF gp.found
           THEN /\ thread' = [who |-> e, pc |-> "send"]
                /\ req' = NewRequest(e, "depth", FALSE)
                /\ taskState' = [taskState EXCEPT ![e] = "running"]
                /\ ready' = Tail(ready)
                /\ UNCHANGED taskResult
           ELSE /\ Finish(e, gp.error, Tail(ready))
                /\ req' = NoReq
    /\ order_book' = NoBook
    /\ fetched' = NoBook
    /\ fills' = <<>>
    /\ UNCHANGED <<exchanges, added, pairs, loaded, credentials, callerPc, call, iterOrder, outer,
                   lowest, executed, orders, market_order, average_fill_price>>

\* the frame that owns the thread raises err: a task ends with it, the
\* caller's execute_market_buy_for_lowest_price ends with it
Raise(err) ==
    IF thread.who = "caller"
    THEN /\ executed' = err
         /\ callerPc' = "done"
         /\ thread' = Idle
         /\ UNCHANGED <<taskState, taskResult, ready>>
    ELSE /\ Finish(thread.who, err, ready)
         /\ UNCHANGED <<executed, callerPc>>

\* _send: Session().send raises a connection error.  tenacity stops after the
\* 5th attempt and raises RetryError, otherwise it sleeps and tries again.
SendFails ==
    /\ thread.pc = "send"
    /\ LET n == req.sends + 1 IN
        IF stop_after_attempt(n)
        THEN /\ req' = [req EXCEPT !.sends = n, !.fails = @ + 1, !.state = "raised",
                                   !.error = RetryError(n)]
             /\ Raise(RetryError(n))
        ELSE /\ req' = [req EXCEPT !.sends = n, !.fails = @ + 1]
             /\ thread' = [thread EXCEPT !.pc = "backoff"]
             /\ UNCHANGED <<taskState, taskResult, ready, executed, callerPc>>
    /\ UNCHANGED <<exchanges, added, pairs, loaded, credentials, call, iterOrder, outer, order_book,
                   fetched, fills, lastPair, lowest, orders, market_order,
                   average_fill_price>>

\* the blocking sleep of tenacity's wait ends
Backoff ==
    /\ thread.pc = "backoff"
    /\ thread' = [thread EXCEPT !.pc = "send"]
    /\ UNCHANGED <<exchanges, added, pairs, loaded, credentials, callerPc, call, iterOrder, ready,
                   taskState, taskResult, outer, req, order_book, fetched, fills,
                   lastPair, lowest, executed, orders, market_order,
                   average_fill_price>>

\* _send: Session().send returns a response, and so does _send
SendReturns ==
    /\ thread.pc = "send"
    /\ req' = [req EXCEPT !.sends = @ + 1, !.state = "sent"]
    /\ thread' = [thread EXCEPT !.pc = "check"]
    /\ UNCHANGED <<exchanges, added, pairs, loaded, credentials, callerPc, call, iterOrder, ready,
                   taskState, taskResult, outer, order_book, fetched, fills, lastPair,
                   lowest, executed, orders, market_order, average_fill_price>>

\* the state of a send_request call once it has checked the response _send
\* returned and has raised err or returned the JSON body: the attempt counters
\* lived in the retry wrapper and are gone
Ended(resp, err) ==
    [req EXCEPT !.state = IF err.kind = "err" THEN "raised" ELSE "returned",
                !.sends = 0, !.fails = 0, !.response = resp, !.error = err]

\* the response to the order book request of a task: send_request checks it
\* (lines 153-168), get_order_book builds the OrderBook from the JSON body
DepthResponse ==
    /\ thread.pc = "check"
    /\ req.kind = "depth"
    /\ \E resp \in DepthResponses(req.owner) :
        LET e == req.owner
            err == AfterSend(e, resp)
            parsed == ParseOrderBook(e, resp)
            failure == IF err.kind = "err" THEN err ELSE parsed.error
        IN IF failure.kind = "err"
           THEN /\ req' = Ended(resp, err)
                /\ Raise(failure)
                /\ UNCHANGED <<order_book, fetched, fills>>
           ELSE /\ req' = Ended(resp, err)
                /\ order_book' = parsed.book
                /\ fetched' = parsed.book
                /\ fills' = <<>>
                /\ thread' = [thread EXCEPT !.pc = "walk"]
                /\ UNCHANGED <<taskState, taskResult, ready, executed, callerPc>>
    /\ UNCHANGED <<exchanges, added, pairs, loaded, credentials, call, iterOrder, outer, lastPair,
                   lowest, orders, market_order, average_fill_price>>

\* mutant: an order size of zero is walked as a size of one
WalkAtLeastOne ==
    /\ thread.pc = "walk"
    /\ LET w == WalkLoop(order_book.asks, IF call.amount = 0 THEN 1 ELSE call.amount, <<>>) IN
        /\ order_book' = [order_book EXCEPT !.asks = w.asks]
        /\ fills' = w.fills
        /\ Finish(thread.who, MarketPrice(w), ready)
    /\ UNCHANGED <<exchanges, added, pairs, loaded, credentials, callerPc, call, iterOrder, outer,
                   req, fetched, lastPair, lowest, executed, orders, market_order,
                   average_fill_price>>

\* lines 48-67 of get_estimated_market_buy_price: the walk over the asks of
\* the order book object, and the price returned or the error raised
Walk ==
    /\ thread.pc = "walk"
    /\ LET w == WalkLoop(order_book.asks, call.amount, <<>>) IN
        /\ order_book' = [order_book EXCEPT !.asks = w.asks]
        /\ fills' = w.fills
        /\ Finish(thread.who, MarketPrice(w), ready)
    /\ UNCHANGED <<exchanges, added, pairs, loaded, credentials, callerPc, call, iterOrder, outer,
                   req, fetched, lastPair, lowest, executed, orders, market_order,
                   average_fill_price>>

\* gather's _done_callback for the task of e (return_exceptions is off): the
\* first task seen with an exception settles the outer future with it; the
\* last task seen settles it with the list of results.
DoneCallback(e) ==
    /\ LoopRuns(Handle("cb", e))
    /\ LET n == outer.nfinished + 1 IN
        IF outer.done
        THEN /\ outer' = [outer EXCEPT !.nfinished = n]
             /\ ready' = Tail(ready)
        ELSE IF taskResult[e].kind = "err"
        THEN /\ outer' = [done |-> TRUE, nfinished |-> n, exc |-> taskResult[e]]
             /\ ready' = Append(Tail(ready), Handle("wake", "caller"))
        ELSE IF n = Len(iterOrder)
        THEN /\ outer' = [outer EXCEPT !.done = TRUE, !.nfinished = n]
             /\ ready' = Append(Tail(ready), Handle("wake", "caller"))
        ELSE /\ outer' = [outer EXCEPT !.nfinished = n]
             /\ ready' = Tail(ready)
    /\ req' = NoReq
    /\ order_book' = NoBook
    /\ fetched' = NoBook
    /\ fills' = <<>>
    /\ UNCHANGED <<exchanges, added, pairs, loaded, credentials, callerPc, call, iterOrder,
                   taskState, taskResult, thread, lastPair, lowest, executed, orders,
                   market_order, average_fill_price>>

\* the outer future being done, the loop resumes the calling coroutine
Wake ==
    /\ LoopRuns(Handle("wake", "caller"))
    /\ callerPc' = "resumed"
    /\ ready' = Tail(ready)
    /\ UNCHANGED <<exchanges, added, pairs, loaded, credentials, call, iterOrder, taskState,
                   taskResult, outer, thread, req, order_book, fetched, fills,
                   lastPair, lowest, executed, orders, market_order,
                   average_fill_price>>

\* the prices gather returns: the tasks' results in the order of its arguments
GatheredPrices == [i \in 1..Len(iterOrder) |-> taskResult[iterOrder[i]].price]

\* mutant: gather hands exceptions back as results and the selection goes on
LowestOutcomeSkippingErrors == Select(GatheredPrices, iterOrder)

\* get_lowest_market_buy_price from the await on (lines 84-94): the exception
\* of the outer future propagates, or the prices are zipped with the exchange
\* set, pushed on the heap and the smallest item popped
LowestOutcome ==
    IF outer.exc.kind = "err" THEN Failed(outer.exc)
    ELSE Select(GatheredPrices, iterOrder)

Resume ==
    /\ callerPc = "resumed"
    /\ lowest' = LowestOutcome
    /\ callerPc' = IF call.op = "execute" /\ LowestOutcome.result.kind = "ok"
                   THEN "selected" ELSE "done"
    /\ UNCHANGED <<exchanges, added, pairs, loaded, credentials, call, iterOrder, ready, taskState,
                   taskResult, outer, thread, req, order_book, fetched, fills,
                   lastPair, executed, orders, market_order, average_fill_price>>

\* mutant: the order goes to the first exchange of the set
BestExchangeFirst == iterOrder[1]

\* the exchange execute_market_buy_for_lowest_price unpacks from the selection
BestExchange == lowest.exchange

\* a market order as execute_market_order is asked to place it
Order(e, pair, size, action, native) ==
    [exchange |-> e, pair |-> pair, order_size |-> size, action |-> action,
     symbol |-> native]

\* line 105 of execute_market_buy_for_lowest_price: execute_market_order on
\* the selected exchange resolves the pair and makes the authenticated request
ExecStart ==
    /\ callerPc = "selected"
    /\ thread = Idle
    /\ LET e == BestExchange
           gp == get_pair(pairs[e], call.symbol, Name(e))
       IN /\ lastPair' = [exchange |-> e, symbol |-> call.symbol, found |-> gp.found,
                          pair |-> gp.pair, error |-> gp.error]
          /\ IF gp.found
             THEN /\ orders' = Append(orders, Order(e, call.symbol, call.amount, "BUY",
                                                    gp.pair.symbol))
                  /\ req' = NewRequest(e, "order", TRUE)
                  /\ thread' = [who |-> "caller", pc |-> "send"]
                  /\ callerPc' = "executing"
                  /\ UNCHANGED <<executed, market_order, average_fill_price>>
             ELSE /\ executed' = gp.error
                  /\ callerPc' = "done"
                  /\ UNCHANGED <<orders, market_order, average_fill_price, req,
                                 thread>>
    /\ UNCHANGED <<exchanges, added, pairs, loaded, credentials, call, iterOrder, ready, taskState,
                   taskResult, outer, order_book, fetched, fills, lowest>>

\* the response to the order request: send_request checks it (lines 153-168)
\* and execute_market_order builds the MarketOrder from the JSON body
OrderResponse ==
    /\ thread.pc = "check"
    /\ req.kind = "order"
    /\ LET order == orders[Len(orders)] IN
        \E resp \in OrderResponses(req.owner, order) :
            LET err == AfterSend(req.owner, resp)
                built == ExecuteResult(req.owner, resp, order)
                failure == IF err.kind = "err" THEN err ELSE built.error
            IN /\ req' = Ended(resp, err)
               /\ executed' = IF failure.kind = "err" THEN failure ELSE Ok(NoPrice)
               /\ market_order' = IF failure.kind = "err" THEN NoOrder ELSE built.order
    /\ callerPc' = "done"
    /\ thread' = Idle
    /\ UNCHANGED <<exchanges, added, pairs, loaded, credentials, call, iterOrder, ready, taskState,
                   taskResult, outer, order_book, fetched, fills, lastPair, lowest,
                   orders, average_fill_price>>

\* the caller reads average_fill_price of the order it was returned
ReadAverageFillPrice ==
    /\ callerPc = "done"
    /\ market_order # NoOrder
    /\ average_fill_price = NoResult
    /\ average_fill_price' = AverageFillPrice(market_order)
    /\ UNCHANGED <<exchanges, added, pairs, loaded, credentials, callerPc, call, iterOrder, ready,
                   taskState, taskResult, outer, thread, req, order_book, fetched,
                   fills, lastPair, lowest, executed, orders, market_order>>

\* the broker call has returned or raised; the caller is free to make another
Return ==
    /\ callerPc = "done"
    /\ callerPc' = "idle"
    /\ call' = NoCall
    /\ iterOrder' = <<>>
    /\ ready' = <<>>
    /\ taskState' = [e \in Instances |-> "none"]
    /\ taskResult' = [e \in Instances |-> NoResult]
    /\ outer' = NoOuter
    /\ req' = NoReq
    /\ order_book' = NoBook
    /\ fetched' = NoBook
    /\ fills' = <<>>
    /\ lastPair' = NoLookup
    /\ lowest' = NoSelection
    /\ executed' = NoResult
    /\ orders' = <<>>
    /\ market_order' = NoOrder
    /\ average_fill_price' = NoResult
    /\ loaded' = [e \in Instances |->
                    IF loaded[e].state = "loading"
                    THEN [loaded[e] EXCEPT !.state = "failed"] ELSE loaded[e]]
    /\ UNCHANGED <<exchanges, added, pairs, credentials, thread>>

Next ==
    \/ \E e \in Instances : AddExchange(e)
    \/ \E op \in {"lowest", "execute"}, symbol \in Symbols, amount \in Amounts :
            Call(op, symbol, amount)
    \/ \E e \in Instances : TaskStart(e)
    \/ SendFails
    \/ Backoff
    \/ SendReturns
    \/ DepthResponse
    \/ Walk
    \/ \E e \in Instances : DoneCallback(e)
    \/ Wake
    \/ Resume
    \/ ExecStart
    \/ OrderResponse
    \/ ReadAverageFillPrice
    \/ Return

Spec == Init /\ [][Next]_vars

\* --------------------------------------------- one exchange, called directly
\* Exchange objects share no state, so this specification follows one object:
\* its construction and the calls a user makes on it, one at a time, with
\* every answer the venue may give.
NotBuilt == [state |-> "none", calls |-> 0]

InitExchange ==
    /\ exchanges = {}
    /\ added = {}
    /\ pairs = [e \in Instances |-> <<>>]
    /\ loaded = [e \in Instances |-> NotBuilt]
    /\ credentials = [e \in Instances |-> NoCredentials]
    /\ callerPc = "idle"
    /\ call = NoCall
    /\ iterOrder = <<>>
    /\ ready = <<>>
    /\ taskState = [e \in Instances |-> "none"]
    /\ taskResult = [e \in Instances |-> NoResult]
    /\ outer = NoOuter
    /\ thread = Idle
    /\ req = NoReq
    /\ order_book = NoBook
    /\ fetched = NoBook
    /\ fills = <<>>
    /\ lastPair = NoLookup
    /\ lowest = NoSelection
    /\ executed = NoResult
    /\ orders = <<>>
    /\ market_order = NoOrder
    /\ average_fill_price = NoResult

\* mutant: the pairs of an object that is already built are loaded again
ConstructAgain(e) ==
    /\ callerPc = "idle"
    /\ \A o \in Instances \ {e} : loaded[o].state = "none"
    /\ loaded[e].state \in {"none", "built"}
    /\ loaded' = [loaded EXCEPT ![e] = [state |-> "loading", calls |-> @.calls + 1]]
    /\ credentials' = [credentials EXCEPT ![e] = Credentials(e)]
    /\ call' = [op |-> "construct", symbol |-> "", amount |-> 0]
    /\ req' = NewRequest(e, "pairs", FALSE)
    /\ thread' = [who |-> "caller", pc |-> "send"]
    /\ callerPc' = "executing"
    /\ UNCHANGED <<exchanges, added, pairs, iterOrder, ready, taskState, taskResult,
                   outer, order_book, fetched, fills, lastPair, lowest, executed,
                   orders, market_order, average_fill_price>>

\* CryptocurrencyExchange.__init__ up to the request load_exchange_pairs makes
Construct(e) ==
    /\ callerPc = "idle"
    /\ \A o \in Instances : loaded[o].state = "none"
    /\ loaded' = [loaded EXCEPT ![e] = [state |-> "loading", calls |-> @.calls + 1]]
    /\ credentials' = [credentials EXCEPT ![e] = Credentials(e)]
    /\ call' = [op |-> "construct", symbol |-> "", amount |-> 0]
    /\ req' = NewRequest(e, "pairs", FALSE)
    /\ thread' = [who |-> "caller", pc |-> "send"]
    /\ callerPc' = "executing"
    /\ UNCHANGED <<exchanges, added, pairs, iterOrder, ready, taskState, taskResult,
                   outer, order_book, fetched, fills, lastPair, lowest, executed,
                   orders, market_order, average_fill_price>>

\* the response to the pair listing request: send_request checks it,
\* load_exchange_pairs builds the list and __init__ stores it
PairsResponse ==
    /\ thread.pc = "check"
    /\ req.kind = "pairs"
    /\ \E resp \in ListingAnswers(req.owner) :
        LET e == req.owner
            err == AfterSend(e, resp)
            parsed == ParsePairs(e, resp)
            failure == IF err.kind = "err" THEN err ELSE parsed.error
        IN IF failure.kind = "err"
           THEN /\ req' = Ended(resp, err)
                /\ executed' = failure
                /\ loaded' = [loaded EXCEPT ![e].state = "failed"]
                /\ UNCHANGED pairs
           ELSE /\ req' = Ended(resp, err)
                /\ executed' = Ok(NoPrice)
                /\ loaded' = [loaded EXCEPT ![e].state = "built"]
                /\ pairs' = [pairs EXCEPT ![e] = parsed.pairs]
    /\ callerPc' = "done"
    /\ thread' = Idle
    /\ UNCHANGED <<exchanges, added, credentials, call, iterOrder, ready, taskState, taskResult,
                   outer, order_book, fetched, fills, lastPair, lowest, orders,
                   market_order, average_fill_price>>

\* exchange.get_order_book(symbol), called directly: the pair is resolved and,
\* when there is one, the unauthenticated order book request is made
GetOrderBook(e, symbol) ==
    /\ callerPc = "idle"
    /\ loaded[e].state = "built"
    /\ call' = [op |-> "get_order_book", symbol |-> symbol, amount |-> 0]
    /\ LET gp == get_pair(pairs[e], symbol, Name(e)) IN
        /\ lastPair' = [exchange |-> e, symbol |-> symbol, found |-> gp.found,
                        pair |-> gp.pair, error |-> gp.error]
        /\ IF gp.found
           THEN /\ req' = NewRequest(e, "depth", FALSE)
                /\ thread' = [who |-> "caller", pc |-> "send"]
                /\ callerPc' = "executing"
                /\ UNCHANGED executed
           ELSE /\ executed' = gp.error
                /\ callerPc' = "done"
                /\ UNCHANGED <<req, thread>>
    /\ UNCHANGED <<exchanges, added, pairs, loaded, credentials, iterOrder, ready, taskState,
                   taskResult, outer, order_book, fetched, fills, lowest, orders,
                   market_order, average_fill_price>>

\* the response to that request: the OrderBook goes back to the caller
BookReturned ==
    /\ thread = [who |-> "caller", pc |-> "check"]
    /\ req.kind = "depth"
    /\ \E resp \in BookAnswers(req.owner) :
        LET e == req.owner
            err == AfterSend(e, resp)
            parsed == ParseOrderBook(e, resp)
            failure == IF err.kind = "err" THEN err ELSE parsed.error
        IN /\ req' = Ended(resp, err)
           /\ executed' = IF failure.kind = "err" THEN failure ELSE Ok(NoPrice)
           /\ order_book' = parsed.book
           /\ fetched' = parsed.book
    /\ callerPc' = "done"
    /\ thread' = Idle
    /\ UNCHANGED <<exchanges, added, pairs, loaded, credentials, call, iterOrder, ready, taskState,
                   taskResult, outer, fills, lastPair, lowest, orders, market_order,
                   average_fill_price>>

OrderActions == {"BUY", "SELL"}

\* mutant: the order is submitted under the identifier as given and the pair
\* is resolved afterwards
ExecuteMarketOrderFirst(e, symbol, size, action) ==
    /\ callerPc = "idle"
    /\ loaded[e].state = "built"
    /\ call' = [op |-> "execute_market_order", symbol |-> symbol, amount |-> size]
    /\ LET gp == get_pair(pairs[e], symbol, Name(e)) IN
        /\ lastPair' = [exchange |-> e, symbol |-> symbol, found |-> gp.found,
                        pair |-> gp.pair, error |-> gp.error]
        /\ orders' = Append(orders, Order(e, symbol, size, action,
                                          IF gp.found THEN gp.pair.symbol ELSE symbol))
        /\ req' = NewRequest(e, "order", TRUE)
        /\ IF gp.found
           THEN /\ thread' = [who |-> "caller", pc |-> "send"]
                /\ callerPc' = "executing"
                /\ UNCHANGED executed
           ELSE /\ executed' = gp.error
                /\ callerPc' = "done"
                /\ UNCHANGED thread
    /\ UNCHANGED <<exchanges, added, pairs, loaded, credentials, iterOrder, ready, taskState,
                   taskResult, outer, order_book, fetched, fills, lowest, market_order,
                   average_fill_price>>

\* exchange.execute_market_order(symbol, size, action), called directly
ExecuteMarketOrder(e, symbol, size, action) ==
    /\ callerPc = "idle"
    /\ loaded[e].state = "built"
    /\ call' = [op |-> "execute_market_order", symbol |-> symbol, amount |-> size]
    /\ LET gp == get_pair(pairs[e], symbol, Name(e)) IN
        /\ lastPair' = [exchange |-> e, symbol |-> symbol, found |-> gp.found,
                        pair |-> gp.pair, error |-> gp.error]
        /\ IF gp.found
           THEN /\ orders' = Append(orders, Order(e, symbol, size, action, gp.pair.symbol))
                /\ req' = NewRequest(e, "order", TRUE)
                /\ thread' = [who |-> "caller", pc |-> "send"]
                /\ callerPc' = "executing"
                /\ UNCHANGED executed
           ELSE /\ executed' = gp.error
                /\ callerPc' = "done"
                /\ UNCHANGED <<orders, req, thread>>
    /\ UNCHANGED <<exchanges, added, pairs, loaded, credentials, iterOrder, ready, taskState,
                   taskResult, outer, order_book, fetched, fills, lowest, market_order,
                   average_fill_price>>

NextExchange ==
    \/ \E e \in Instances : Construct(e)
    \/ PairsResponse
    \/ \E e \in Instances, symbol \in Symbols : GetOrderBook(e, symbol)
    \/ BookReturned
    \/ \E e \in Instances, symbol \in Symbols, size \in Amounts, action \in OrderActions :
            ExecuteMarketOrder(e, symbol, size, action)
    \/ SendFails
    \/ Backoff
    \/ SendReturns
    \/ OrderResponse
    \/ ReadAverageFillPrice
    \/ Return

SpecExchange == InitExchange /\ [][NextExchange]_vars

\* ------------------------------------------------- get_pair on its own
\* Exchanges whose directory is any list of up to MaxPairs pairs, and a
\* caller that looks identifiers up with get_pair.  "BTCU"+"SD" and
\* "BTC"+"USD" concatenate to the same identifier.
PairUniverse ==
    {Pair(b, q, s) : b \in {"BTC", "BTCU"}, q \in {"USD", "SD"},
                     s \in {"BTCUSD", "PF_XBTUSD"}}

Directories == SeqsUpTo(PairUniverse, MaxPairs)

Identifiers == {"BTCUSD", "PF_XBTUSD", "BTCSD", "DOGEUSD"}

InitLookup ==
    /\ exchanges = {}
    /\ added = {}
    /\ \E d \in Directories : pairs = [e \in Instances |-> d]
    /\ loaded = [e \in Instances |-> Built]
    /\ credentials = [e \in Instances |-> Credentials(e)]
    /\ callerPc = "idle"
    /\ call = NoCall
    /\ iterOrder = <<>>
    /\ ready = <<>>
    /\ taskState = [e \in Instances |-> "none"]
    /\ taskResult = [e \in Instances |-> NoResult]
    /\ outer = NoOuter
    /\ thread = Idle
    /\ req = NoReq
    /\ order_book = NoBook
    /\ fetched = NoBook
    /\ fills = <<>>
    /\ lastPair = NoLookup
    /\ lowest = NoSelection
    /\ executed = NoResult
    /\ orders = <<>>
    /\ market_order = NoOrder
    /\ average_fill_price = NoResult

\* exchange.get_pair(symbol), called directly
Lookup(e, symbol) ==
    /\ LET gp == get_pair(pairs[e], symbol, Name(e)) IN
        lastPair' = [exchange |-> e, symbol |-> symbol, found |-> gp.found,
                     pair |-> gp.pair, error |-> gp.error]
    /\ UNCHANGED <<exchanges, added, pairs, loaded, credentials, callerPc, call, iterOrder, ready,
                   taskState, taskResult, outer, thread, req, order_book, fetched,
                   fills, lowest, executed, orders, market_order, average_fill_price>>

NextLookup == \E e \in Instances, symbol \in Identifiers : Lookup(e, symbol)

SpecLookup == InitLookup /\ [][NextLookup]_vars

\* ================================================================ claims
\* the estimation of exchange e has just ended its walk: the order book
\* object and the content it was fetched with are still in the state
JustWalked(e) ==
    /\ req.state = "returned"
    /\ req.kind = "depth"
    /\ req.owner = e
    /\ taskState[e] = "finished"

\* get_lowest_market_buy_price has returned or raised
Returned == callerPc \in {"selected", "executing", "done"}

Min(a, b) == IF a < b THEN a ELSE b

Max(a, b) == IF a > b THEN a ELSE b

\* the quantity resting on the first n levels
RECURSIVE QtyUpTo(_, _)
QtyUpTo(asks, n) == IF n = 0 THEN 0 ELSE asks[n].quantity + QtyUpTo(asks, n - 1)

TotalQty(asks) == QtyUpTo(asks, Len(asks))

\* the quantity an order of the given size takes from level i
Taken(asks, size, i) == Min(asks[i].quantity, Max(0, size - QtyUpTo(asks, i - 1)))

\* the cost of what the order takes from the first n levels
RECURSIVE Cost(_, _, _)
Cost(asks, size, n) ==
    IF n = 0 THEN 0 ELSE asks[n].price * Taken(asks, size, n) + Cost(asks, size, n - 1)

\* C1: for a positive order size that the asks can cover, the estimate is
\* the cost of the quantities the order takes, level by level from the front,
\* divided by the order size; it is the first level's price when that level
\* alone covers the order.
C1_WeightedPrice ==
    \A e \in Instances :
        (JustWalked(e) /\ call.amount > 0 /\ TotalQty(fetched.asks) >= call.amount) =>
            LET asks == fetched.asks
                r == taskResult[e]
            IN /\ r.kind = "ok"
               /\ r.price.num * call.amount = Cost(asks, call.amount, Len(asks)) * r.price.den
               /\ (asks[1].quantity >= call.amount =>
                       r.price = [num |-> asks[1].price, den |-> 1])

\* an estimate that needed more than one level, at two different prices
C1_Witness ==
    \E e \in Instances :
        /\ JustWalked(e)
        /\ call.amount > 0
        /\ TotalQty(fetched.asks) >= call.amount
        /\ Len(fetched.asks) = 2
        /\ fetched.asks[1].quantity < call.amount
        /\ fetched.asks[1].price # fetched.asks[2].price
        /\ taskResult[e].kind = "ok"

\* C2: when the asks hold less than the order size, the estimate fails with
\* ExchangeLiquidityError and no price is returned.
C2_InsufficientLiquidity ==
    \A e \in Instances :
        (JustWalked(e) /\ TotalQty(fetched.asks) < call.amount) =>
            /\ taskResult[e].kind = "err"
            /\ taskResult[e].exc = "ExchangeLiquidityError"
            /\ taskResult[e].price = NoPrice

\* a walk that consumed every level and still fell short
C2_Witness ==
    \E e \in Instances :
        /\ JustWalked(e)
        /\ fetched.asks # <<>>
        /\ TotalQty(fetched.asks) < call.amount
        /\ taskResult[e].exc = "ExchangeLiquidityError"

\* every registered exchange produced an estimate
AllEstimated == exchanges # {} /\ \A e \in exchanges : taskResult[e].kind = "ok"

\* the result is the smallest estimate, paired with an exchange that produced it
LowestIsMinimum ==
    /\ lowest.result.kind = "ok"
    /\ lowest.exchange \in exchanges
    /\ taskResult[lowest.exchange].price = lowest.result.price
    /\ \A e \in exchanges : ~FracLess(taskResult[e].price, lowest.result.price)

\* C3: when every registered exchange yields an estimate,
\* get_lowest_market_buy_price returns the minimum of the estimates paired
\* with the exchange whose estimate it is.
C3_LowestIsMinimum == (Returned /\ AllEstimated) => LowestIsMinimum

Tie == \E a, b \in exchanges : a # b /\ taskResult[a].price = taskResult[b].price

\* C4: when two or more registered exchanges yield the same estimate,
\* get_lowest_market_buy_price completes and returns the minimum price with
\* one of the exchanges that produced it.
C4_TieCompletes == (Returned /\ AllEstimated /\ Tie) => LowestIsMinimum

\* C5: on a broker with no registered exchange, get_lowest_market_buy_price
\* raises the no-exchanges-available error, returns no price, and no order is
\* submitted.
C5_NoExchanges ==
    (Returned /\ exchanges = {}) =>
        /\ lowest.result.kind = "err"
        /\ lowest.result.exc = "RuntimeError"
        /\ lowest.result.msg = "No exchanges available to get lowest market price"
        /\ lowest.result.price = NoPrice
        /\ callerPc = "done"
        /\ orders = <<>>
    /\ market_order = NoOrder
    /\ average_fill_price = NoResult

\* execute_market_buy_for_lowest_price ended on an empty broker
C5_Witness ==
    /\ callerPc = "done"
    /\ exchanges = {}
    /\ call.op = "execute"
    /\ lowest.result.exc = "RuntimeError"

Failing == {e \in exchanges : taskResult[e].kind = "err"}

\* C6: if the estimate of any registered exchange fails,
\* get_lowest_market_buy_price fails with the error of a failing exchange,
\* unmodified, and returns no price and no exchange.
C6_FailurePropagates ==
    (Returned /\ Failing # {}) =>
        /\ lowest.result.kind = "err"
        /\ \E e \in Failing : lowest.result = taskResult[e]
        /\ lowest.exchange = ""
        /\ callerPc = "done"

\* one exchange of three failed after its retries ran out, the others estimated
C6_Witness ==
    /\ Returned
    /\ Cardinality(exchanges) = 3
    /\ \E e \in exchanges :
        /\ Failing = {e}
        /\ taskResult[e].exc = "RetryError"
        /\ lowest.result = taskResult[e]

\* C7: execute_market_buy_for_lowest_price places exactly one market order,
\* a BUY of the requested amount for the requested symbol on the exchange
\* get_lowest_market_buy_price selected, and only once the estimate of every
\* registered exchange has ended; when the selection fails it places none.
C7_OneOrderOnSelected ==
    /\ Len(orders) <= 1
    /\ orders # <<>> =>
        /\ call.op = "execute"
        /\ lowest.result.kind = "ok"
        /\ \A e \in exchanges : taskState[e] = "finished"
        /\ orders[1].exchange = lowest.exchange
        /\ orders[1].pair = call.symbol
        /\ orders[1].order_size = call.amount
        /\ orders[1].action = "BUY"
    /\ (callerPc = "done" /\ call.op = "execute" /\ lowest.result.kind = "ok") =>
        Len(orders) = 1
    /\ (Returned /\ lowest.result.kind = "err") => orders = <<>>

\* an order placed after a selection among three exchanges, on an exchange
\* that is not the first of the iteration
C7_Witness ==
    /\ callerPc = "done"
    /\ call.op = "execute"
    /\ Cardinality(exchanges) = 3
    /\ Len(orders) = 1
    /\ orders[1].exchange # iterOrder[1]

\* C8: the estimation leaves the order book it obtained from the exchange as
\* it was: same asks and same bids, in the same order, after the walk.
C8_BookUnchanged ==
    \A e \in Instances : JustWalked(e) => order_book = fetched

\* the indexes of the loaded pairs that the identifier matches
MatchingIndexes(ps, symbol) ==
    {i \in 1..Len(ps) : ps[i].symbol = symbol \/ ps[i].base \o ps[i].quote = symbol}

\* C9: get_pair returns the first loaded pair whose native symbol or whose
\* base+quote concatenation is the identifier; exactly when no pair matches
\* it fails with the pair-not-found error, whose message names the symbol
\* and the venue.
C9_FirstMatchOrNotFound ==
    lastPair.exchange # "" =>
        LET ps == pairs[lastPair.exchange]
            m == MatchingIndexes(ps, lastPair.symbol)
        IN /\ lastPair.found <=> m # {}
           /\ lastPair.found =>
                /\ \E i \in m : lastPair.pair = ps[i] /\ \A j \in m : i <= j
                /\ lastPair.error.kind = "none"
           /\ ~lastPair.found =>
                /\ lastPair.error.kind = "err"
                /\ lastPair.error.exc = "ExchangePairDoesNotExistError"
                /\ lastPair.error.msg = "Trading pair '" \o lastPair.symbol
                        \o "' not found on '" \o Name(lastPair.exchange) \o "'"

\* a lookup that the first pair does not match and that the second matches
\* by its base+quote only
C9_Witness ==
    /\ lastPair.found
    /\ Len(pairs[lastPair.exchange]) >= 2
    /\ lastPair.pair = pairs[lastPair.exchange][2]
    /\ lastPair.pair # pairs[lastPair.exchange][1]
    /\ lastPair.pair.symbol # lastPair.symbol

\* C10: a send that succeeds after k failed sends ends the request after
\* exactly k+1 sends, k+1 being at most 5; after 5 failed sends no further
\* send is made and the request fails with RetryError, which is not the
\* connection error and carries the fifth send's error as its last attempt.
C10_RetryCeiling ==
    /\ req.sends <= 5
    /\ req.state = "sent" => (req.sends = req.fails + 1 /\ req.fails <= 4)
    /\ req.state = "active" => (req.sends = req.fails /\ req.fails <= 4)
    /\ req.fails = 5 =>
        /\ req.state = "raised"
        /\ req.sends = 5
        /\ req.error.exc = "RetryError"
        /\ req.error.last_attempt = 5
    /\ req.error.exc = "RetryError" => req.fails = 5
    /\ \A e \in Instances : taskResult[e].exc = "RetryError" =>
            taskResult[e].last_attempt = 5

\* the fifth send succeeds after four failures
C10_Witness ==
    /\ req.state = "sent"
    /\ req.fails = 4
    /\ req.sends = 5

\* send_request has checked a response and has raised or returned
Checked == req.state \in {"raised", "returned"} /\ req.response # NoResponse

StatusPrefix(resp) ==
    "Request failed with status code " \o ToString(resp.status) \o ", error message: "

C12_ResponseExposed ==
    (callerPc = "done" /\ executed.exc = "ExchangeBadResponseError") =>
        executed.response # NoResponse

\* C13: a Kraken Futures body that carries a venue error is never handed
\* back by handle_response: an error of error_mapping raises the exception
\* mapped to it, any other error raises ExchangeBadResponseError with the
\* raw payload in its message.
C13_VenueErrorRaises ==
    (Checked /\ req.owner = "kraken" /\ req.response.status = CodesOk
             /\ "error" \in req.response.keys) =>
        LET r == req.response IN
        /\ req.state = "raised"
        /\ r.error \in DOMAIN ErrorMapping => req.error.exc = ErrorMapping[r.error]
        /\ r.error \notin DOMAIN ErrorMapping =>
                /\ req.error.exc = "ExchangeBadResponseError"
                /\ req.error.msg = "Kraken Futures API error: " \o r.raw

\* C14: the broker's exchange set is exactly the set of the instances
\* add_exchange was called with: adding a member again changes nothing, and
\* two instances of one venue are both members.
C14_ExactlyTheAdded == exchanges = added

\* both Binance instances are members
C14_Witness ==
    /\ {"binance", "binance2"} \subseteq exchanges
    /\ Name("binance") = Name("binance2")

\* C15: the pair directory of an exchange is built by one load_exchange_pairs
\* call, made by the constructor; once the exchange is built no step adds,
\* removes, reorders or changes an entry, and no further load is made.
C15_BuiltOnce ==
    /\ [](\A e \in Instances :
            /\ loaded[e].calls <= 1
            /\ loaded[e].state = "built" => loaded[e].calls = 1)
    /\ [][\A e \in Instances :
            loaded[e].state = "built" => (pairs'[e] = pairs[e] /\ loaded'[e] = loaded[e])]_vars

\* a built exchange with a directory, after an order was submitted on it
C15_Witness ==
    \E e \in Instances :
        /\ loaded[e].state = "built"
        /\ pairs[e] # <<>>
        /\ callerPc = "done"
        /\ call.op = "execute_market_order"
        /\ req.owner = e
        /\ req.state = "returned"

\* C16: average_fill_price of a returned MarketOrder is the sum of
\* price * quantity over its fills divided by the sum of the quantities, and
\* reading it on an order without fills does not fail with a division by zero.
C16_AverageGuarded ==
    (market_order # NoOrder /\ average_fill_price # NoResult) =>
        /\ average_fill_price.exc # "ZeroDivisionError"
        /\ market_order.fills # <<>> =>
                /\ average_fill_price.kind = "ok"
                /\ average_fill_price.price.num * TotalQuantity(market_order.fills)
                       = WeightedSum(market_order.fills) * average_fill_price.price.den

SignatureParams == {"timestamp", "signature"}

SignatureHeaders == {"APIKey", "Authent", "Nonce"}

\* C17: on both venues a request made by execute_market_order is
\* authenticated and carries the signature material (timestamp and signature
\* parameters on Binance, APIKey, Authent and Nonce headers on Kraken), and a
\* request made by get_order_book or load_exchange_pairs carries none.
C17_SignedOrdersOnly ==
    req.state # "none" =>
        /\ req.kind = "order" =>
                /\ req.authenticated
                /\ IF req.owner = "kraken"
                   THEN SignatureHeaders \subseteq req.headers
                   ELSE SignatureParams \subseteq req.params
        /\ req.kind \in {"depth", "pairs"} =>
                /\ ~req.authenticated
                /\ req.params \cap SignatureParams = {}
                /\ req.headers \cap SignatureHeaders = {}

\* an order request has been sent to Kraken
C17_Witness ==
    /\ req.kind = "order"
    /\ req.state = "sent"
    /\ req.owner = "kraken"
    /\ req.sends = 1

\* the amounts of the first n fills
RECURSIVE FilledUpTo(_, _)
FilledUpTo(fs, n) == IF n = 0 THEN 0 ELSE fs[n].amount + FilledUpTo(fs, n - 1)

\* C18: on a successful walk the fills come from a prefix of the asks in
\* list order: fill i takes min(quantity of level i, what is still to fill) at
\* the price of level i, the level before the last fill did not complete the
\* order, the levels after the last fill are left in the book, and the
\* amounts of the fills add up to the order size.
C18_FillsFromPrefix ==
    \A e \in Instances :
        (JustWalked(e) /\ taskResult[e].kind = "ok") =>
            LET asks == fetched.asks
                n == Len(fills)
            IN /\ n >= 1
               /\ n <= Len(asks)
               /\ \A i \in 1..n :
                    /\ fills[i].price = asks[i].price
                    /\ fills[i].amount =
                           Min(asks[i].quantity, call.amount - QtyUpTo(asks, i - 1))
                    /\ fills[i].amount > 0
               /\ order_book.asks = SubSeq(asks, n + 1, Len(asks))
               /\ FilledUpTo(fills, n) = call.amount

\* a walk whose second fill took part of the second level
C18_Witness ==
    \E e \in Instances :
        /\ JustWalked(e)
        /\ taskResult[e].kind = "ok"
        /\ Len(fills) = 2
        /\ fills[2].amount < fetched.asks[2].quantity
        /\ fetched.asks[1].price # fetched.asks[2].price

\* C19: when get_lowest_market_buy_price goes on after its await, with the
\* results or with an error, the estimation task of every registered
\* exchange has returned a price or raised; none is pending or running.
C19_Join ==
    (callerPc = "resumed" \/ Returned) =>
        \A e \in exchanges :
            /\ taskState[e] = "finished"
            /\ taskResult[e].kind \in {"ok", "err"}

\* the call failed with one task's error while another task had a price
C19_Witness ==
    /\ Returned
    /\ Cardinality(exchanges) = 3
    /\ lowest.result.kind = "err"
    /\ \E e \in exchanges : taskResult[e] = lowest.result
    /\ \E e \in exchanges : taskResult[e].kind = "ok"

\* C20: while the request of one exchange waits in its retry backoff, the
\* task of another registered exchange that is next in the loop's queue can
\* start.
C20_BackoffSuspendsOnlyItsTask ==
    \A e, o \in Instances :
        (/\ thread = [who |-> e, pc |-> "backoff"]
         /\ o # e
         /\ taskState[o] = "pending"
         /\ ready # <<>>
         /\ Head(ready) = Handle("task", o)) => ENABLED TaskStart(o)

\* the frame that is executing: the task that owns the thread, or the task
\* the loop is about to start
Running(e) ==
    \/ thread.who = e
    \/ /\ thread = Idle
       /\ ready # <<>>
       /\ Head(ready) = Handle("task", e)

\* C21: from the call of get_lowest_market_buy_price to its return no step
\* changes the exchange set, a pair directory or the credentials of an
\* exchange, and while the caller awaits the gathered tasks a result slot is
\* written only by the task it belongs to.
C21_NoSharedWrites ==
    [][/\ (callerPc # "idle" \/ callerPc' # "idle") =>
            /\ exchanges' = exchanges
            /\ pairs' = pairs
            /\ credentials' = credentials
       /\ callerPc = "awaiting" =>
            \A e \in Instances :
                taskResult'[e] # taskResult[e] => Running(e)]_vars

\* two tasks have ended with different results while a third is still pending
C21_Witness ==
    /\ callerPc = "awaiting"
    /\ \E e, o, p \in exchanges :
        /\ taskState[e] = "finished" /\ taskResult[e].kind = "ok"
        /\ taskState[o] = "finished" /\ taskResult[o].kind = "err"
        /\ taskState[p] = "pending"

\* C22: with an order size of zero and a non-empty list of asks the estimate
\* raises an error or is the price of the first ask, no ask level is removed
\* from the order book and no fill is made.
C22_ZeroSize ==
    \A e \in Instances :
        (JustWalked(e) /\ call.amount = 0 /\ fetched.asks # <<>>) =>
            LET r == taskResult[e] IN
                /\ order_book.asks = fetched.asks
                /\ fills = <<>>
                /\ \/ r.kind = "err"
                   \/ /\ r.kind = "ok"
                      /\ r.price = Frac(fetched.asks[1].price, 1)

\* an estimate for size zero over two ask levels has ended in the division
\* of zero by zero
C22_Witness ==
    \E e \in Instances :
        /\ JustWalked(e)
        /\ call.amount = 0
        /\ Len(fetched.asks) = 2
        /\ taskResult[e] = Err("ZeroDivisionError", "division by zero")

\* the listed symbols that get a USD alias on instance e
Aliased(e, t) == t.quote = UsdStablecoin(e) /\ t.quote # "USD"

\* the number of aliased symbols among the first n of the listing
RECURSIVE AliasesUpTo(_, _, _)
AliasesUpTo(e, listing, n) ==
    IF n = 0 THEN 0
    ELSE AliasesUpTo(e, listing, n - 1) + (IF Aliased(e, listing[n]) THEN 1 ELSE 0)

\* load_exchange_pairs of the Binance instance e has just returned
JustLoaded(e) ==
    /\ e # "kraken"
    /\ call.op = "construct"
    /\ callerPc = "done"
    /\ req.owner = e
    /\ req.kind = "pairs"
    /\ loaded[e].state = "built"

\* C23: the pairs a Binance instance loads are the listed symbols in the
\* listing's order, each symbol whose quote asset is the configured
\* usd_stablecoin (other than "USD") directly followed by one alias with the
\* same base, quote "USD" and the same native symbol; there is no other
\* entry, and no alias when usd_stablecoin is the default.
C23_StablecoinAlias ==
    \A e \in Instances :
        JustLoaded(e) =>
            LET listing == req.response.listing
                at(i) == i + AliasesUpTo(e, listing, i - 1)
            IN /\ Len(pairs[e]) = Len(listing) + AliasesUpTo(e, listing, Len(listing))
               /\ \A i \in 1..Len(listing) :
                    /\ pairs[e][at(i)] =
                           Pair(listing[i].base, listing[i].quote, listing[i].symbol)
                    /\ Aliased(e, listing[i]) =>
                           pairs[e][at(i) + 1] =
                               Pair(listing[i].base, "USD", listing[i].symbol)
               /\ UsdStablecoin(e) = "USD" =>
                    Len(pairs[e]) = Len(listing)

\* an instance configured with USDT has loaded a listing whose first symbol
\* is quoted in USDT and whose second is not
C23_Witness ==
    \E e \in Instances :
        /\ JustLoaded(e)
        /\ UsdStablecoin(e) = "USDT"
        /\ Len(req.response.listing) = 2
        /\ req.response.listing[1].quote = "USDT"
        /\ req.response.listing[2].quote = "USD"
        /\ Len(pairs[e]) = 3
        /\ pairs[e][2] = Pair("BTC", "USD", "BTCUSDT")

\* a direct get_order_book or execute_market_order call is in progress or
\* has ended
DirectCall == call.op \in {"get_order_book", "execute_market_order"}

\* C24: a get_order_book or execute_market_order call whose identifier
\* matches no loaded pair ends with ExchangePairDoesNotExistError without a
\* request having been built or sent and without an order having been
\* submitted; whenever such a call has a request, its pair was found.
C24_NoRequestForUnknownPair ==
    /\ (DirectCall /\ ~lastPair.found) =>
            /\ callerPc = "done"
            /\ executed.kind = "err"
            /\ executed.exc = "ExchangePairDoesNotExistError"
            /\ req = NoReq
            /\ orders = <<>>
            /\ market_order = NoOrder
    /\ (DirectCall /\ (req # NoReq \/ orders # <<>>)) => lastPair.found

\* execute_market_order was called on an instance with a non-empty pair
\* directory for an identifier none of its pairs matches
C24_Witness ==
    /\ call.op = "execute_market_order"
    /\ call.amount > 0
    /\ callerPc = "done"
    /\ ~lastPair.found
    /\ pairs[lastPair.exchange] # <<>>
    /\ executed.exc = "ExchangePairDoesNotExistError"

\* make_request has returned the body of a Kraken Futures order submission,
\* a body that has a sendStatus
KrakenOrderAnswered ==
    /\ call.op = "execute_market_order"
    /\ callerPc = "done"
    /\ req.kind = "order"
    /\ req.owner = "kraken"
    /\ req.state = "returned"
    /\ "sendStatus" \in req.response.keys

\* the last entry of the order events has type EXECUTION
LastIsExecution(events) ==
    /\ events # <<>>
    /\ events[Len(events)].type = "EXECUTION"

\* C25: KrakenFutures.execute_market_order returns an order only when the
\* last order event of the response has type EXECUTION and otherwise raises
\* ExchangeBadResponseError and returns no order; a returned order has one
\* (price, amount) fill per order event, in the events' order, and its
\* filled quantity is the sum of the fills' amounts.
C25_ExecutionOnly ==
    KrakenOrderAnswered =>
        LET events == req.response.order.events IN
            /\ market_order # NoOrder => LastIsExecution(events)
            /\ ~LastIsExecution(events) =>
                    /\ executed.kind = "err"
                    /\ executed.exc = "ExchangeBadResponseError"
                    /\ market_order = NoOrder
            /\ market_order # NoOrder =>
                    /\ Len(market_order.fills) = Len(events)
                    /\ \A i \in 1..Len(events) :
                            market_order.fills[i] = <<events[i].price, events[i].amount>>
                    /\ market_order.filled = TotalQuantity(market_order.fills)
====
